---- MODULE Spec2Model ----
(***************************************************************************)
(* A model of count_score.py: the score pipeline get_score, the region     *)
(* geometry (find_score_boxes and its helpers), the crop rectangle         *)
(* (find_crop_corners) and the dot counter (find_score_from_image,         *)
(* find_score).                                                            *)
(*                                                                         *)
(* The program is Python 2: "/" on two ints is floor division and int()    *)
(* of a float truncates toward zero.  A point is a tuple <<x, y>>.         *)
(***************************************************************************)
EXTENDS Integers, Sequences, FiniteSets, TLC

VARIABLES
    pc,          \* position of the run: which step comes next
    gaps,        \* SpecDots: the 11 gaps between the 12 dots of the input row
    dots,        \* SpecDots: the centroids handed to find_score, in label order
    locals,      \* SpecDots: find_score's locals once it has run
    corners,     \* the 4 corners handed to the geometry
    scale,       \* SpecGeom: the factor k the corners are scaled by
    lower,       \* SpecGeom: find_lower_long_side's (point_a, point_b)
    geo,         \* find_score_boxes' locals: ends, middles, boxes
    scaled,      \* SpecGeom: find_score_boxes of the corners times scale
    crop_corners,\* SpecGeom: find_crop_corners of each score box
    image,       \* Spec: the straightened photograph get_score works on
    crops,       \* Spec: <<score1_crop, score2_crop>>
    data,        \* Spec: get_score's dict
    result,      \* Spec: what get_score returned
    err          \* Spec: the exception that ended get_score

dotvars == <<gaps, dots, locals>>
geomvars == <<scale, lower, scaled, crop_corners>>
pipevars == <<image, crops, data, result, err>>
vars == <<pc, gaps, dots, locals, corners, scale, lower, geo, scaled,
          crop_corners, image, crops, data, result, err>>

----------------------------------------------------------------------------
(* Program constants.                                                      *)

MIN_SCORE_AREA == 15
MAX_SCORE_AREA == 120
\* "if len(objects) != 12"
NumDots == 12

----------------------------------------------------------------------------
(* Bounds of the model.                                                    *)

\* dots of an input row are 1..MaxGap pixels apart
MaxGap == 3
\* at most MaxWide gaps of an input row differ from the gap of the others
MaxWide == 2
\* the row's first dot is at x = Origin, and the row at y = Origin
Origin == 3

----------------------------------------------------------------------------
(* Generic math functions.                                                 *)

Abs(n) == IF n < 0 THEN -n ELSE n

\* Python's ordering of two (a, b) tuples of ints
TupleLess(p, q) == p[1] < q[1] \/ (p[1] = q[1] /\ p[2] < q[2])

\* (dx)**2 + (dy)**2, the radicand of distance_between_points
distance_squared(p) ==
    (p[2][1] - p[1][1]) * (p[2][1] - p[1][1])
        + (p[2][2] - p[1][2]) * (p[2][2] - p[1][2])

\* math.sqrt of the radicand.  The float is represented exactly only when the
\* root is an integer, which is so for two points of one row or one column;
\* the model evaluates it on such points only (CHOOSE is undefined otherwise).
distance_between_points(p) ==
    CHOOSE r \in 0..(Abs(p[2][1] - p[1][1]) + Abs(p[2][2] - p[1][2])) :
        r * r = distance_squared(p)

RECURSIVE SumSeq(_)
SumSeq(s) == IF s = << >> THEN 0 ELSE Head(s) + SumSeq(Tail(s))

\* float(sum(distances)) / len(distances), kept as the exact fraction num/den:
\* the distances are integers here, and a comparison d > num/den of an integer
\* d with the rounded quotient agrees with the exact one d * den > num.
average_distance_between_score_dots_div10(points) ==
    LET distances == [i \in 1..(Len(points) - 1) |->
                        distance_between_points(<<points[i], points[i + 1]>>)]
    IN  [num |-> SumSeq(distances), den |-> Len(distances) - 1]

average_distance_between_score_dots(points) ==
    LET distances == [i \in 1..(Len(points) - 1) |->
                        distance_between_points(<<points[i], points[i + 1]>>)]
    IN  [num |-> SumSeq(distances), den |-> Len(distances)]

----------------------------------------------------------------------------
(* DotCounter: find_score.                                                 *)

\* the for loop of find_score, skipping a gap above the average instead of
\* stopping at it
RECURSIVE find_score_loop_continue(_, _, _, _)
find_score_loop_continue(points, middle_distance, i, score) ==
    IF i > Len(points) - 1
    THEN score
    ELSE IF distance_between_points(<<points[i], points[i + 1]>>)
                * middle_distance.den > middle_distance.num
         THEN find_score_loop_continue(points, middle_distance, i + 1, score)
         ELSE find_score_loop_continue(points, middle_distance, i + 1, score + 1)

\* the for loop of find_score from index i on, with the running score
RECURSIVE find_score_loop(_, _, _, _)
find_score_loop(points, middle_distance, i, score) ==
    IF i > Len(points) - 1
    THEN score
    ELSE IF distance_between_points(<<points[i], points[i + 1]>>)
                * middle_distance.den > middle_distance.num
         THEN score
         ELSE find_score_loop(points, middle_distance, i + 1, score + 1)

\* find_score's locals when it returns: the sorted points, the average and
\* the score
find_score_locals(points) ==
    LET sorted == SortSeq(points, TupleLess)
        middle_distance == average_distance_between_score_dots(sorted)
    IN  [points |-> sorted,
         middle_distance |-> middle_distance,
         score |-> find_score_loop(sorted, middle_distance, 1, 0)]

find_score(points) == find_score_locals(points).score

----------------------------------------------------------------------------
(* SpecDots: find_score applied to a row of 12 dots.                       *)

NumGaps == NumDots - 1

\* the centroids of a row of dots with the given gaps, left to right
RowPoints(g) ==
    [i \in 1..(Len(g) + 1) |-> <<Origin + SumSeq(SubSeq(g, 1, i - 1)), Origin>>]

Reverse(s) == [i \in 1..Len(s) |-> s[Len(s) + 1 - i]]

NoLocals == [points |-> << >>, middle_distance |-> [num |-> 0, den |-> 1], score |-> 0]

\* the sets of at most MaxWide gaps
WideSets == {V \in SUBSET (1..NumGaps) : Cardinality(V) <= MaxWide}

\* a row of NumDots dots: evenly spaced, but for at most MaxWide gaps
InitDots ==
    /\ pc = "find_score"
    /\ \E d \in 1..MaxGap, W \in WideSets :
          \E e \in [W -> 1..MaxGap] :
              gaps = [i \in 1..NumGaps |-> IF i \in W THEN e[i] ELSE d]
    /\ \E reversed \in BOOLEAN :
           dots = IF reversed THEN Reverse(RowPoints(gaps)) ELSE RowPoints(gaps)
    /\ locals = NoLocals
    /\ corners = << >> /\ geo = << >>
    /\ scale = 0 /\ lower = << >> /\ scaled = << >> /\ crop_corners = << >>
    /\ image = << >> /\ crops = << >> /\ data = {} /\ result = << >> /\ err = << >>

ApplyFindScore ==
    /\ pc = "find_score"
    /\ locals' = find_score_locals(dots)
    /\ pc' = "scored"
    /\ UNCHANGED <<gaps, dots, corners, geo>>
    /\ UNCHANGED geomvars
    /\ UNCHANGED pipevars

NextDots == ApplyFindScore

SpecDots == InitDots /\ [][NextDots]_vars

----------------------------------------------------------------------------
(* RegionGeometryEngine: the generic helpers it uses.                      *)

\* the margins, in thousandths: 0.045, 0.015 and 0.17
SCORE_BLOCK_LENGTH == 45
SCORE_INNER_MARGIN == 15
SCORE_TO_MIDDLE_MARGIN == 170

\* int(d * percent): the product truncated toward zero.  For |d| <= 5000 and
\* the three margins above the float product truncates to the same integer as
\* the exact product d * thousandths / 1000.
IntOfProduct(d, thousandths) ==
    IF d < 0 THEN -(((-d) * thousandths) \div 1000)
             ELSE (d * thousandths) \div 1000

flip(coord) == <<coord[2], coord[1]>>

\* Python 2: (a + b) / 2 on ints is the floor
middle_point(p1, p2) == <<(p1[1] + p2[1]) \div 2, (p1[2] + p2[2]) \div 2>>

\* min() and max() of a collection of tuples
TupleMin(S) == CHOOSE p \in S : \A q \in S : p = q \/ TupleLess(p, q)
TupleMax(S) == CHOOSE p \in S : \A q \in S : p = q \/ TupleLess(q, p)

Range(s) == {s[i] : i \in DOMAIN s}

\* a margin of fixed size in pixels, whatever the length measured
calculate_coordinate_addition_pixels(middle1, middle2, percent) ==
    <<IntOfProduct(middle2[1] - middle1[1], percent) + percent \div 10,
      IntOfProduct(middle2[2] - middle1[2], percent) + percent \div 10>>

calculate_coordinate_addition(middle1, middle2, percent) ==
    LET x_diff == IntOfProduct(middle2[1] - middle1[1], percent)
        y_diff == IntOfProduct(middle2[2] - middle1[2], percent)
    IN  <<x_diff, y_diff>>

calculate_score_box(middle_a, middle_b, addition) ==
    LET box_a == <<middle_a[1] + addition[1], middle_a[2] + addition[2]>>
        box_b == <<middle_b[1] + addition[1], middle_b[2] + addition[2]>>
    IN  <<middle_b, middle_a, box_a, box_b>>

\* the quarter points pushed along (middle -> quarter point), away from the
\* middle
table_end_middles_outward(end) ==
    LET middle == middle_point(end[1], end[2])
        middle_a == middle_point(end[1], middle)
        middle_b == middle_point(end[2], middle)
        add1 == calculate_coordinate_addition(middle, middle_a, SCORE_TO_MIDDLE_MARGIN)
        add2 == calculate_coordinate_addition(middle, middle_b, SCORE_TO_MIDDLE_MARGIN)
    IN  <<middle,
          <<middle_a[1] + add1[1], middle_a[2] + add1[2]>>,
          <<middle_b[1] + add2[1], middle_b[2] + add2[2]>> >>

\* returns (middle, middle_a, middle_b)
table_end_middles(end) ==
    LET middle == middle_point(end[1], end[2])
        middle_a == middle_point(end[1], middle)
        middle_b == middle_point(end[2], middle)
        add1 == calculate_coordinate_addition(middle_a, middle, SCORE_TO_MIDDLE_MARGIN)
        add2 == calculate_coordinate_addition(middle_b, middle, SCORE_TO_MIDDLE_MARGIN)
    IN  <<middle,
          <<middle_a[1] + add1[1], middle_a[2] + add1[2]>>,
          <<middle_b[1] + add2[1], middle_b[2] + add2[2]>> >>

\* itertools.combinations(points, 2) of 4 points, in the order it yields them
combinations(points) ==
    << <<points[1], points[2]>>, <<points[1], points[3]>>, <<points[1], points[4]>>,
       <<points[2], points[3]>>, <<points[2], points[4]>>, <<points[3], points[4]>> >>

\* the index in S of the smallest key; of equal keys the first wins, as
\* heapq.nsmallest decorates each item with (key, position, item)
SmallestIndex(keys, S) ==
    CHOOSE i \in S : \A j \in S : keys[i] < keys[j] \/ (keys[i] = keys[j] /\ i <= j)

\* heapq.nsmallest(2, pairs, key=distance_between_points).  The key is compared
\* through its radicand: math.sqrt is strictly increasing on these integers.
nsmallest2(pairs) ==
    LET keys == [i \in DOMAIN pairs |-> distance_squared(pairs[i])]
        i1 == SmallestIndex(keys, DOMAIN pairs)
        i2 == SmallestIndex(keys, DOMAIN pairs \ {i1})
    IN  <<pairs[i1], pairs[i2]>>

\* Python's ordering of two pairs of points
PairLess(e, f) == TupleLess(e[1], f[1]) \/ (e[1] = f[1] /\ TupleLess(e[2], f[2]))

\* the two shortest lines as nsmallest gives them, not sorted
find_table_ends_unsorted(points) == nsmallest2(combinations(points))

\* the two shortest lines, sorted in descending order
find_table_ends_descending(points) ==
    SortSeq(nsmallest2(combinations(points)), LAMBDA e, f : PairLess(f, e))

find_table_ends(points) ==
    LET ends == nsmallest2(combinations(points))
    IN  SortSeq(ends, PairLess)

\* find_score_boxes' locals when it returns
find_score_boxes_locals(points) ==
    LET ends == find_table_ends(points)
        end1 == ends[1]
        end2 == ends[2]
        m1 == table_end_middles(end1)
        m2 == table_end_middles(end2)
        middle1 == m1[1]
        middle2 == m2[1]
        add1 == calculate_coordinate_addition(middle1, middle2, SCORE_INNER_MARGIN)
        add2 == calculate_coordinate_addition(middle2, middle1, SCORE_INNER_MARGIN)
        middle1_a == <<m1[2][1] + add1[1], m1[2][2] + add1[2]>>
        middle1_b == <<m1[3][1] + add1[1], m1[3][2] + add1[2]>>
        middle2_a == <<m2[2][1] + add2[1], m2[2][2] + add2[2]>>
        middle2_b == <<m2[3][1] + add2[1], m2[3][2] + add2[2]>>
        addition1 == calculate_coordinate_addition(middle1, middle2, SCORE_BLOCK_LENGTH)
        addition2 == calculate_coordinate_addition(middle2, middle1, SCORE_BLOCK_LENGTH)
        end1_box == calculate_score_box(middle1_a, middle1_b, addition1)
        end2_box == calculate_score_box(middle2_a, middle2_b, addition2)
    IN  [ends |-> ends, middles |-> <<m1, m2>>, boxes |-> <<end1_box, end2_box>>]

find_score_boxes(points) == find_score_boxes_locals(points).boxes

\* the crop corners taken as two points of the box whatever its shape: the
\* first point as top left, the third as bottom right
find_crop_corners_by_position(box) == <<box[1], box[3]>>

\* "Finds top left and bottom right from 4 coordinates."
find_crop_corners(box) ==
    LET sorted_by_x == SortSeq(box, TupleLess)
        left_coords == SubSeq(sorted_by_x, 1, 2)
        right_coords == SubSeq(sorted_by_x, 3, Len(sorted_by_x))
        tl == TupleMin({flip(c) : c \in Range(left_coords)})
        br == TupleMax({flip(c) : c \in Range(right_coords)})
    IN  << <<tl[2], tl[1]>>, <<br[2], br[1]>> >>

\* the nearer of the two candidates taken as point_b
find_lower_long_side_nearer(points) ==
    LET sorted_by_y == SortSeq([i \in DOMAIN points |-> flip(points[i])], TupleLess)
        lowest == sorted_by_y[Len(sorted_by_y)]
        distance_a == distance_squared(<<lowest, sorted_by_y[2]>>)
        distance_b == distance_squared(<<lowest, sorted_by_y[3]>>)
        point_b == IF distance_a < distance_b THEN sorted_by_y[2] ELSE sorted_by_y[3]
    IN  <<flip(lowest), flip(point_b)>>

\* distance_a > distance_b is decided on the radicands (math.sqrt is strictly
\* increasing on these integers)
find_lower_long_side(points) ==
    LET sorted_by_y == SortSeq([i \in DOMAIN points |-> flip(points[i])], TupleLess)
        lowest == sorted_by_y[Len(sorted_by_y)]
        distance_a == distance_squared(<<lowest, sorted_by_y[2]>>)
        distance_b == distance_squared(<<lowest, sorted_by_y[3]>>)
        point_a == lowest
        point_b == IF distance_a > distance_b THEN sorted_by_y[2] ELSE sorted_by_y[3]
    IN  <<flip(point_a), flip(point_b)>>

----------------------------------------------------------------------------
(* SpecGeom: the geometry applied to the corners of a table.               *)

\* the corners are scaled by 1..MaxScale
MaxScale == 3
\* one corner is off its exact place by 0..MaxJitter pixels in x and in y, as
\* the detector rounds each corner to a pixel
MaxJitter == 1

\* where the first corner of a table lies
Origins == {<<110, 110>>, <<111, 113>>}
\* the direction of the table's first side
Directions == {<<1, 0>>, <<4, 1>>, <<4, -1>>}
\* the lengths of a table's sides, in units of the direction
Sizes == {9, 50, 101}

\* the corners of the rectangle at o whose first side is m times u and whose
\* second side is n times u turned a quarter
RectCorners(o, u, m, n) ==
    << o,
       <<o[1] + m * u[1], o[2] + m * u[2]>>,
       <<o[1] + m * u[1] - n * u[2], o[2] + m * u[2] + n * u[1]>>,
       <<o[1] - n * u[2], o[2] + n * u[1]>> >>

\* the detector gives the corners in no fixed order
Rotate(s, r) == [i \in 1..Len(s) |-> s[((i - 1 + r) % Len(s)) + 1]]

ScalePoints(points, k) == [i \in DOMAIN points |-> <<k * points[i][1], k * points[i][2]>>]

TableCorners ==
    { [Rotate(RectCorners(o, u, m, n), r) EXCEPT ![1] = <<@[1] + jx, @[2] + jy>>] :
        o \in Origins, u \in Directions, m \in Sizes, n \in Sizes,
        r \in 0..3, jx \in 0..MaxJitter, jy \in 0..MaxJitter }

InitGeom ==
    /\ pc = "lower"
    /\ corners \in TableCorners
    /\ scale \in 1..MaxScale
    /\ lower = << >> /\ geo = << >> /\ scaled = << >> /\ crop_corners = << >>
    /\ gaps = << >> /\ dots = << >> /\ locals = NoLocals
    /\ image = << >> /\ crops = << >> /\ data = {} /\ result = << >> /\ err = << >>

\* straighten_table's use of the corners
ApplyFindLowerLongSide ==
    /\ pc = "lower"
    /\ lower' = find_lower_long_side(corners)
    /\ pc' = "boxes"
    /\ UNCHANGED <<corners, scale, geo, scaled, crop_corners>>
    /\ UNCHANGED dotvars
    /\ UNCHANGED pipevars

ApplyFindScoreBoxes ==
    /\ pc = "boxes"
    /\ geo' = find_score_boxes_locals(corners)
    /\ scaled' = find_score_boxes(ScalePoints(corners, scale))
    /\ pc' = "crop"
    /\ UNCHANGED <<corners, scale, lower, crop_corners>>
    /\ UNCHANGED dotvars
    /\ UNCHANGED pipevars

\* crop_boxes' use of each box
ApplyFindCropCorners ==
    /\ pc = "crop"
    /\ crop_corners' = [b \in DOMAIN geo.boxes |-> find_crop_corners(geo.boxes[b])]
    /\ pc' = "cropped"
    /\ UNCHANGED <<corners, scale, lower, geo, scaled>>
    /\ UNCHANGED dotvars
    /\ UNCHANGED pipevars

NextGeom ==
    \/ ApplyFindLowerLongSide
    \/ ApplyFindScoreBoxes
    \/ ApplyFindCropCorners

SpecGeom == InitGeom /\ [][NextGeom]_vars

----------------------------------------------------------------------------
(* DotCounter: find_score_from_image.                                      *)

\* A connected component as ndimage.find_objects gives it: the slices
\* (dy, dx), each <<start, stop>>.  A black and white image is modelled by the
\* sequence of its components, in label order.
Blob(x, y, w, h) == [dx |-> <<x, x + w>>, dy |-> <<y, y + h>>]

\* too many objects go unnoticed: only fewer than 12 is an error
find_score_from_image_at_least(slices) ==
    LET area(s) == Abs((s.dx[2] - s.dx[1]) * (s.dy[2] - s.dy[1]))
        kept == SelectSeq(slices, LAMBDA s :
                    ~(area(s) < MIN_SCORE_AREA \/ area(s) > MAX_SCORE_AREA))
        centres == [i \in 1..Len(kept) |->
                      <<(kept[i].dx[1] + kept[i].dx[2] - 1) \div 2,
                        (kept[i].dy[1] + kept[i].dy[2] - 1) \div 2>>]
    IN  IF Len(centres) < NumDots
        THEN [raised |-> TRUE, found |-> Len(centres), score |-> 0]
        ELSE [raised |-> FALSE, found |-> Len(centres), score |-> find_score(centres)]

\* raised: the ValueError, which reports `found`; otherwise score is returned
find_score_from_image(slices) ==
    LET area(s) == Abs((s.dx[2] - s.dx[1]) * (s.dy[2] - s.dy[1]))
        kept == SelectSeq(slices, LAMBDA s :
                    ~(area(s) < MIN_SCORE_AREA \/ area(s) > MAX_SCORE_AREA))
        centres == [i \in 1..Len(kept) |->
                      <<(kept[i].dx[1] + kept[i].dx[2] - 1) \div 2,
                        (kept[i].dy[1] + kept[i].dy[2] - 1) \div 2>>]
    IN  IF Len(centres) # NumDots
        THEN [raised |-> TRUE, found |-> Len(centres), score |-> 0]
        ELSE [raised |-> FALSE, found |-> Len(centres), score |-> find_score(centres)]

----------------------------------------------------------------------------
(* RegionCropper: crop_boxes.                                              *)

\* image[y1:y2, x1:x2], transposed and flipped, as the black and white image
\* its masking gives.  The photograph is modelled by its table and by what
\* each of the two scoreboards shows: a slice that lies within the table's
\* left half shows the left scoreboard, one within the right half the right
\* scoreboard, and an empty slice or one across the middle shows no dot.
Region(img, c) ==
    LET x1 == c[1][1]
        y1 == c[1][2]
        x2 == c[2][1]
        y2 == c[2][2]
        xs == {p[1] : p \in {img.table[i] : i \in DOMAIN img.table}}
        lo == CHOOSE v \in xs : \A w \in xs : v <= w
        hi == CHOOSE v \in xs : \A w \in xs : v >= w
    IN  IF x1 >= x2 \/ y1 >= y2 THEN << >>
        ELSE IF 2 * x2 <= lo + hi THEN img.left
        ELSE IF 2 * x1 >= lo + hi THEN img.right
        ELSE << >>

crop_boxes(img, boxes) ==
    [b \in DOMAIN boxes |-> Region(img, find_crop_corners(boxes[b]))]

----------------------------------------------------------------------------
(* ScorePipeline: get_score, from the corners of the straightened table on. *)

\* list.remove(x): the list without the first item equal to x
RemoveFirst(s, x) ==
    LET at == CHOOSE i \in DOMAIN s : s[i] = x /\ \A j \in 1..(i - 1) : s[j] # x
    IN  [i \in 1..(Len(s) - 1) |-> IF i < at THEN s[i] ELSE s[i + 1]]

\* data[key] = value, the dict kept as its set of (key, value) pairs
DictSet(d, key, value) == {kv \in d : kv[1] # key} \cup {<<key, value>>}

\* "sorted_corners = ..." to "score_boxes = find_score_boxes([tl, bl, br, tr])":
\* the list handed to find_score_boxes
classify_corners(detected) ==
    LET c == find_crop_corners(detected)
        tl == c[1]
        br == c[2]
        rest == RemoveFirst(RemoveFirst(detected, tl), br)
        bl == TupleMin(Range(rest))
        tr == TupleMax(Range(rest))
    IN  <<tl, bl, br, tr>>

\* a scoreboard shows NumDots - 1 .. NumDots + MaxExtraDots dots
MaxExtraDots == 1
\* and, like the other scoreboard of the photograph, 0..MaxNoise blobs that
\* are no dots
MaxNoise == 1
\* the dots of a scoreboard are Pitch pixels apart, and ExtraGap more where
\* the markers part
Pitch == 14
ExtraGap == 5

\* width and height of a dot: of area 15 and of area 120
DotShapes == {<<3, 5>>, <<10, 12>>}
\* of a blob that is no dot: of area 14 and of area 121
NoiseShape(j) == IF j % 2 = 1 THEN <<2, 7>> ELSE <<11, 11>>

\* the components of a scoreboard of n dots, parted after position k (k = n - 1:
\* not parted), with `noise` blobs that are no dots labelled first
Board(n, k, shape, noise) ==
    [j \in 1..noise |->
        Blob(Origin + j * Pitch, Origin + Pitch + Pitch, NoiseShape(j)[1], NoiseShape(j)[2])]
    \o [i \in 1..n |->
        Blob(Origin + (i - 1) * Pitch + (IF i - 1 > k THEN ExtraGap ELSE 0), Origin,
             shape[1], shape[2])]

\* a scoreboard of 12 dots parted anywhere or not at all; one of another
\* number of dots not parted
Boards(shape, noise) ==
    { Board(NumDots, k, shape, noise) : k \in 0..(NumDots - 1) }
    \cup
    { Board(n, n - 1, shape, noise) : n \in (NumDots - 1)..(NumDots + MaxExtraDots) }

\* width and height of the straightened table: its long side is horizontal
TableSizes == {<<400, 200>>, <<555, 201>>}

NoResult == [returned |-> FALSE, value |-> {}]
NoError == [raised |-> FALSE, found |-> 0]

Init ==
    /\ pc = "corners"
    /\ \E size \in TableSizes, r \in 0..3, shape \in DotShapes, noise \in 0..MaxNoise :
         \E l \in Boards(shape, noise), rt \in Boards(shape, noise) :
            image = [table |-> Rotate(RectCorners(<<110, 110>>, <<1, 0>>, size[1], size[2]), r),
                     left |-> l, right |-> rt]
    /\ corners = << >> /\ geo = << >> /\ crops = << >>
    /\ data = {} /\ result = NoResult /\ err = NoError
    /\ gaps = << >> /\ dots = << >> /\ locals = NoLocals
    /\ scale = 0 /\ lower = << >> /\ scaled = << >> /\ crop_corners = << >>

\* lines 115-124: the detected corners, classified
GetScoreCorners ==
    /\ pc = "corners"
    /\ corners' = classify_corners(image.table)
    /\ pc' = "score_boxes"
    /\ UNCHANGED <<geo, image, crops, data, result, err>>
    /\ UNCHANGED dotvars
    /\ UNCHANGED geomvars

\* line 128
GetScoreBoxes ==
    /\ pc = "score_boxes"
    /\ geo' = find_score_boxes_locals(corners)
    /\ pc' = "crop_boxes"
    /\ UNCHANGED <<corners, image, crops, data, result, err>>
    /\ UNCHANGED dotvars
    /\ UNCHANGED geomvars

\* line 140, with the masking of each crop (lines 147 and 155-160)
GetScoreCrops ==
    /\ pc = "crop_boxes"
    /\ crops' = crop_boxes(image, geo.boxes)
    /\ pc' = "left"
    /\ UNCHANGED <<corners, geo, image, data, result, err>>
    /\ UNCHANGED dotvars
    /\ UNCHANGED geomvars

\* line 152: data['leftScore'] = 10 - find_score_from_image(bw_image)
GetScoreLeft ==
    /\ pc = "left"
    /\ LET r == find_score_from_image(crops[1])
       IN  \/ /\ r.raised
              /\ err' = [raised |-> TRUE, found |-> r.found]
              /\ pc' = "raised"
              /\ UNCHANGED data
           \/ /\ ~r.raised
              /\ data' = DictSet(data, "leftScore", 10 - r.score)
              /\ pc' = "right"
              /\ UNCHANGED err
    /\ UNCHANGED <<corners, geo, image, crops, result>>
    /\ UNCHANGED dotvars
    /\ UNCHANGED geomvars

\* line 164: data['rightScore'] = find_score_from_image(bw_image)
GetScoreRight ==
    /\ pc = "right"
    /\ LET r == find_score_from_image(crops[2])
       IN  \/ /\ r.raised
              /\ err' = [raised |-> TRUE, found |-> r.found]
              /\ pc' = "raised"
              /\ UNCHANGED data
           \/ /\ ~r.raised
              /\ data' = DictSet(data, "rightScore", r.score)
              /\ pc' = "return"
              /\ UNCHANGED err
    /\ UNCHANGED <<corners, geo, image, crops, result>>
    /\ UNCHANGED dotvars
    /\ UNCHANGED geomvars

\* line 166: return data
GetScoreReturn ==
    /\ pc = "return"
    /\ result' = [returned |-> TRUE, value |-> data]
    /\ pc' = "done"
    /\ UNCHANGED <<corners, geo, image, crops, data, err>>
    /\ UNCHANGED dotvars
    /\ UNCHANGED geomvars

Next ==
    \/ GetScoreCorners
    \/ GetScoreBoxes
    \/ GetScoreCrops
    \/ GetScoreLeft
    \/ GetScoreRight
    \/ GetScoreReturn

Spec == Init /\ [][Next]_vars

----------------------------------------------------------------------------
(* Properties of find_score (SpecDots).                                    *)

\* the sum of the gaps of the input row
GapSum == SumSeq(gaps)

\* the number of gaps, from the left, before the first gap g with g * den > num
LeadingWithin(num, den) ==
    LET over == {i \in DOMAIN gaps : gaps[i] * den > num}
    IN  IF over = {} THEN Len(gaps)
        ELSE (CHOOSE i \in over : \A j \in over : i <= j) - 1

\* the row is evenly spaced but for one strictly larger gap after position k
\* (position 0 is the leftmost dot)
OneLargeGapAfter(k) ==
    \E d \in 1..MaxGap :
        /\ gaps[k + 1] > d
        /\ \A i \in DOMAIN gaps : i # k + 1 => gaps[i] = d

\* C2: for 12 dots of one row, evenly spaced but for one strictly larger gap
\* after position k (k in 0..10, position 0 the leftmost dot), find_score
\* returns k: the gaps before the first gap above the average are counted and
\* nothing after it.
C2_LargeGapAfterKScoresK ==
    pc = "scored" =>
        \A k \in 0..(NumGaps - 1) : OneLargeGapAfter(k) => locals.score = k

\* C2 happens: the dots came right to left, the large gap is after position 4
\* and the score is 4
C2_Witness ==
    /\ pc = "scored"
    /\ OneLargeGapAfter(4)
    /\ dots # locals.points
    /\ locals.score = 4

\* C6 as stated: the threshold find_score compares each gap against is the sum
\* of the consecutive gaps divided by 10.
C6_ThresholdIsSumOverTen ==
    pc = "scored" =>
        /\ locals.middle_distance.num * 10 = GapSum * locals.middle_distance.den
        /\ locals.score = LeadingWithin(GapSum, 10)

\* C6 amended: the threshold find_score compares each gap against is the sum
\* of the consecutive gaps between the 12 sorted points divided by the number
\* of gaps, 11; the score is the number of gaps before the first gap g with
\* 11 * g above that sum.
C6_ThresholdIsSumOverEleven ==
    pc = "scored" =>
        /\ locals.middle_distance.num * NumGaps = GapSum * locals.middle_distance.den
        /\ locals.score = LeadingWithin(GapSum, NumGaps)

\* C6 happens: the first gap is above a eleventh of the sum and not above a
\* tenth of it, and the walk stops at it
C6_Witness ==
    /\ pc = "scored"
    /\ gaps[1] * NumGaps > GapSum
    /\ gaps[1] * 10 <= GapSum
    /\ locals.score = 0

----------------------------------------------------------------------------
(* Properties of the geometry (SpecGeom).                                  *)

DistSq(p, q) == distance_squared(<<p, q>>)

\* the 4 points are, in some order, the corners of a rectangle whose two
\* sides are of unequal, positive length
IsElongatedRectangle(c) ==
    \E a, b, o, d \in DOMAIN c :
        /\ Cardinality({a, b, o, d}) = 4
        /\ c[b][1] - c[a][1] = c[o][1] - c[d][1]
        /\ c[b][2] - c[a][2] = c[o][2] - c[d][2]
        /\ (c[b][1] - c[a][1]) * (c[d][1] - c[a][1])
             + (c[b][2] - c[a][2]) * (c[d][2] - c[a][2]) = 0
        /\ DistSq(c[a], c[b]) > 0
        /\ DistSq(c[a], c[d]) > 0
        /\ DistSq(c[a], c[b]) # DistSq(c[a], c[d])

GeomBoxesDone == pc \in {"crop", "cropped"} /\ scale > 0

\* the two pairs are two of the 6 pairs of corners, no other pair is shorter
\* than either, and they are in ascending tuple order
TwoShortestSorted(ends) ==
    LET all == combinations(corners)
    IN  /\ Len(ends) = 2
        /\ \E i, j \in DOMAIN all :
              /\ i # j
              /\ ends \in {<<all[i], all[j]>>, <<all[j], all[i]>>}
              /\ \A k \in DOMAIN all \ {i, j} :
                    /\ distance_squared(all[k]) >= distance_squared(all[i])
                    /\ distance_squared(all[k]) >= distance_squared(all[j])
        /\ ~PairLess(ends[2], ends[1])

\* the two pairs share no corner and together cover the 4 corners
OppositeSides(ends) ==
    /\ Range(ends[1]) \cap Range(ends[2]) = {}
    /\ Range(ends[1]) \cup Range(ends[2]) = Range(corners)

\* C9 as stated: for every 4 integer corners find_table_ends returns the two
\* shortest of the 6 pairs, sorted ascending by tuple ordering, and the two
\* pairs are the two short sides: they share no corner and cover all 4.
C9_EndsAreOppositeSides ==
    GeomBoxesDone => TwoShortestSorted(geo.ends) /\ OppositeSides(geo.ends)

\* C9 amended: for every 4 integer corners find_table_ends returns two pairs
\* with the smallest of the 6 pairwise distances, sorted ascending by tuple
\* ordering; when the corners are those of a rectangle with unequal sides the
\* two pairs are its two short sides: they share no corner, cover all 4 corners
\* and are of equal length.
C9_EndsOfElongatedRectangle ==
    GeomBoxesDone =>
        /\ TwoShortestSorted(geo.ends)
        /\ IsElongatedRectangle(corners) =>
              /\ OppositeSides(geo.ends)
              /\ distance_squared(geo.ends[1]) = distance_squared(geo.ends[2])

\* C9 happens: a turned rectangle with unequal sides has had its ends found,
\* and nsmallest's order of the two was not the sorted one
C9_Witness ==
    /\ GeomBoxesDone
    /\ IsElongatedRectangle(corners)
    /\ \A i, j \in DOMAIN corners : i # j => corners[i][2] # corners[j][2]
    /\ geo.ends # nsmallest2(combinations(corners))
    /\ OppositeSides(geo.ends)

\* the quarter point between an end's point p and the end's middle, before
\* its offset
QuarterPoint(p, end) == middle_point(p, middle_point(end[1], end[2]))

\* every end's offset quarter points are at least as far from the middle as
\* the quarter points
OffsetsAwayFromMiddle ==
    \A e \in DOMAIN geo.ends :
        LET end == geo.ends[e]
            m == geo.middles[e]
        IN  /\ DistSq(m[2], m[1]) >= DistSq(QuarterPoint(end[1], end), m[1])
            /\ DistSq(m[3], m[1]) >= DistSq(QuarterPoint(end[2], end), m[1])

\* a coordinate v lies between a and b
Between(v, a, b) == (a <= v /\ v <= b) \/ (b <= v /\ v <= a)

\* every end's offset quarter points are the quarter points moved by 0.17
\* (truncated) of the way to the middle: between the quarter point and the
\* middle in both coordinates, so no farther from the middle
OffsetsTowardMiddle ==
    \A e \in DOMAIN geo.ends :
        LET end == geo.ends[e]
            m == geo.middles[e]
        IN  \A s \in {2, 3} :
                LET q == QuarterPoint(end[s - 1], end)
                IN  /\ m[1] = middle_point(end[1], end[2])
                    /\ \A c \in {1, 2} :
                          /\ m[s][c] - q[c] =
                                IntOfProduct(m[1][c] - q[c], SCORE_TO_MIDDLE_MARGIN)
                          /\ Between(m[s][c], q[c], m[1][c])
                    /\ DistSq(m[s], m[1]) <= DistSq(q, m[1])

\* C7 as stated: in table_end_middles each quarter point is offset away from
\* the end's middle by 0.17 of the quarter-point-to-middle segment: the offset
\* point is never nearer to the middle than the quarter point.
C7_OffsetAwayFromMiddle == GeomBoxesDone => OffsetsAwayFromMiddle

\* C7 amended: in table_end_middles each quarter point is offset toward the
\* end's middle by 0.17 (truncated per coordinate) of its vector to the
\* middle: the offset point is never farther from the middle than the quarter
\* point, so the two offset points move toward each other.
C7_OffsetTowardMiddle == GeomBoxesDone => OffsetsTowardMiddle

\* C7 happens: both offsets of an end are not zero and bring the two points
\* strictly nearer to each other
C7_Witness ==
    /\ GeomBoxesDone
    /\ \E e \in DOMAIN geo.ends :
          LET end == geo.ends[e]
              m == geo.middles[e]
          IN  /\ m[2] # QuarterPoint(end[1], end)
              /\ m[3] # QuarterPoint(end[2], end)
              /\ DistSq(m[2], m[3])
                    < DistSq(QuarterPoint(end[1], end), QuarterPoint(end[2], end))

\* C5: find_score_boxes is scale-invariant up to integer rounding: with
\* non-negative corners and a positive factor k, each coordinate of each point
\* of the two boxes of the corners times k is within 4 * (k + 1) pixels of k
\* times the coordinate from the corners themselves, box for box in the same
\* order.
C5_ScaleInvariantUpToRounding ==
    (GeomBoxesDone /\ \A i \in DOMAIN corners : corners[i][1] >= 0 /\ corners[i][2] >= 0) =>
        \A b \in DOMAIN geo.boxes : \A j \in DOMAIN geo.boxes[b] : \A c \in {1, 2} :
            Abs(scaled[b][j][c] - scale * geo.boxes[b][j][c]) <= 4 * (scale + 1)

\* C5 happens: the corners are scaled by 2 or more, the boxes are not
\* degenerate and the rounding shows in some coordinate
C5_Witness ==
    /\ GeomBoxesDone
    /\ scale >= 2
    /\ \A i \in DOMAIN corners : corners[i][1] >= 0 /\ corners[i][2] >= 0
    /\ geo.boxes[1][1] # geo.boxes[1][3]
    /\ \E b \in DOMAIN geo.boxes : \E j \in DOMAIN geo.boxes[b] : \E c \in {1, 2} :
          Abs(scaled[b][j][c] - scale * geo.boxes[b][j][c]) >= 2

SetMin(S) == CHOOSE v \in S : \A w \in S : v <= w
SetMax(S) == CHOOSE v \in S : \A w \in S : v >= w

\* (min x, min y) and (max x, max y) over the box's points
BoundingRectangle(box) ==
    << <<SetMin({p[1] : p \in Range(box)}), SetMin({p[2] : p \in Range(box)})>>,
       <<SetMax({p[1] : p \in Range(box)}), SetMax({p[2] : p \in Range(box)})>> >>

\* the box's points are the corners of an upright rectangle
IsUpright(box) ==
    LET r == BoundingRectangle(box)
    IN  Range(box) = {<<r[1][1], r[1][2]>>, <<r[2][1], r[1][2]>>,
                      <<r[2][1], r[2][2]>>, <<r[1][1], r[2][2]>>}

\* C8 as stated: for every 4-point score box, axis-aligned or not, the
\* rectangle crop_boxes slices has top-left (min x, min y) and bottom-right
\* (max x, max y) over the box's points.
C8_CropIsBoundingRectangle ==
    pc = "cropped" /\ scale > 0 =>
        \A b \in DOMAIN geo.boxes :
            crop_corners[b] = BoundingRectangle(geo.boxes[b])

\* C8 amended: for every score box whose 4 points are the corners of an
\* axis-aligned rectangle, find_crop_corners returns (min x, min y) and
\* (max x, max y); for any box it returns two of the box's own points, one of
\* the two leftmost and one of the two rightmost, which for a skewed box need
\* not be the corners of the bounding rectangle.
C8_CropOfUprightBox ==
    pc = "cropped" /\ scale > 0 =>
        \A b \in DOMAIN geo.boxes :
            /\ crop_corners[b][1] \in Range(geo.boxes[b])
            /\ crop_corners[b][2] \in Range(geo.boxes[b])
            /\ crop_corners[b][1][1] <= crop_corners[b][2][1]
            /\ IsUpright(geo.boxes[b]) =>
                  crop_corners[b] = BoundingRectangle(geo.boxes[b])

\* C8 happens: an upright box of positive width and height has been cropped,
\* and its top left and bottom right are not its first and third points
C8_Witness ==
    /\ pc = "cropped" /\ scale > 0
    /\ \E b \in DOMAIN geo.boxes :
          /\ IsUpright(geo.boxes[b])
          /\ crop_corners[b][1][1] < crop_corners[b][2][1]
          /\ crop_corners[b][1][2] < crop_corners[b][2][2]
          /\ crop_corners[b] # <<geo.boxes[b][1], geo.boxes[b][3]>>

\* C10: for the 4 integer corners of a (possibly rotated) rectangle with
\* unequal sides, find_lower_long_side returns point_a = a corner of greatest
\* y and point_b = the other endpoint of the longer of the two edges at
\* point_a: exactly one corner (the diagonal one) is farther from point_a than
\* point_b and exactly one (the short edge's) is nearer.
C10_LowerLongSide ==
    (pc \in {"boxes", "crop", "cropped"} /\ scale > 0 /\ IsElongatedRectangle(corners)) =>
        LET point_a == lower[1]
            point_b == lower[2]
            others == Range(corners) \ {point_a}
        IN  /\ point_a \in Range(corners)
            /\ \A c \in Range(corners) : c[2] <= point_a[2]
            /\ point_b \in others
            /\ Cardinality({c \in others : DistSq(point_a, c) > DistSq(point_a, point_b)}) = 1
            /\ Cardinality({c \in others : DistSq(point_a, c) < DistSq(point_a, point_b)}) = 1

\* C10 happens: a turned rectangle with unequal sides, whose long edge at the
\* lowest corner ends at the second corner from the top
C10_Witness ==
    /\ pc = "boxes" /\ scale > 0
    /\ IsElongatedRectangle(corners)
    /\ \A i, j \in DOMAIN corners : i # j => corners[i][2] # corners[j][2]
    /\ Cardinality({c \in Range(corners) : c[2] < lower[2][2]}) = 1

----------------------------------------------------------------------------
(* Properties of get_score (Spec).                                         *)

\* the number of components whose bounding box has an area within
\* [MIN_SCORE_AREA, MAX_SCORE_AREA]
Survivors(slices) ==
    Cardinality({i \in DOMAIN slices :
        (slices[i].dx[2] - slices[i].dx[1]) * (slices[i].dy[2] - slices[i].dy[1])
            \in MIN_SCORE_AREA..MAX_SCORE_AREA})

\* the score get_score gave a side, if any
ScoresOf(d, key) == {kv[2] : kv \in {e \in d : e[1] = key}}

\* C1: whenever get_score returns a record, leftScore and rightScore are both
\* in 0..10 (find_score's raw count of 12 centroids is in 0..10, evenly spaced
\* ones included).
C1_ScoresWithinZeroToTen ==
    result.returned =>
        /\ ScoresOf(result.value, "leftScore") \subseteq 0..10
        /\ ScoresOf(result.value, "rightScore") \subseteq 0..10

\* the count of a region, left or right, was not 12 and find_score_from_image
\* was called on it
LeftCountWrong ==
    /\ pc \in {"right", "return", "done", "raised"}
    /\ Survivors(crops[1]) # 12
RightCountWrong ==
    /\ pc \in {"return", "done", "raised"}
    /\ Survivors(crops[1]) = 12
    /\ Survivors(crops[2]) # 12

\* C3: if the number of components with a bounding-box area in [15, 120] is
\* not exactly 12 for either region, find_score_from_image fails with the
\* invalid-dot-count error that reports the count found, and get_score returns
\* no record: neither a partial one nor one with a default score.  A record
\* is returned only with both counts 12, and holds both scores.
C3_WrongCountAborts ==
    /\ LeftCountWrong =>
          /\ pc = "raised"
          /\ err = [raised |-> TRUE, found |-> Survivors(crops[1])]
          /\ data = {}
          /\ ~result.returned
    /\ RightCountWrong =>
          /\ pc = "raised"
          /\ err = [raised |-> TRUE, found |-> Survivors(crops[2])]
          /\ ~result.returned
    /\ pc = "raised" => ~result.returned /\ result.value = {}
    /\ result.returned =>
          /\ Survivors(crops[1]) = 12 /\ Survivors(crops[2]) = 12
          /\ {kv[1] : kv \in result.value} = {"leftScore", "rightScore"}
          /\ ~err.raised

\* C3 happens: the left region had its 12 dots and a score, the right region
\* 13 dots of the largest area allowed, and get_score has raised
C3_Witness ==
    /\ pc = "raised"
    /\ Survivors(crops[1]) = 12
    /\ Len(crops[2]) > Survivors(crops[2])
    /\ Survivors(crops[2]) = 13
    /\ \E i \in DOMAIN crops[2] :
          (crops[2][i].dx[2] - crops[2][i].dx[1]) * (crops[2][i].dy[2] - crops[2][i].dy[1])
              = MAX_SCORE_AREA
    /\ err.found = 13
    /\ ScoresOf(data, "leftScore") # {}
    /\ ~result.returned

\* the lowest and the highest x of the detected table
TableLeft == SetMin({image.table[i][1] : i \in DOMAIN image.table})
TableRight == SetMax({image.table[i][1] : i \in DOMAIN image.table})

\* C4: for a straightened table whose long side is horizontal, leftScore is 10
\* minus the raw count of the scoreboard at the table's left end and
\* rightScore the raw count of the scoreboard at its right end: the first end
\* and the first box of find_score_boxes are the left end's, the second the
\* right end's.
C4_LeftIsLeft ==
    /\ pc \in {"crop_boxes", "left", "right", "return", "done", "raised"} =>
          /\ \A p \in Range(geo.ends[1]) : p[1] = TableLeft
          /\ \A p \in Range(geo.ends[2]) : p[1] = TableRight
          /\ \A p \in Range(geo.boxes[1]) : 2 * p[1] < TableLeft + TableRight
          /\ \A p \in Range(geo.boxes[2]) : 2 * p[1] > TableLeft + TableRight
    /\ pc \in {"left", "right", "return", "done", "raised"} =>
          crops = <<image.left, image.right>>
    /\ result.returned =>
          result.value =
              {<<"leftScore", 10 - find_score_from_image(image.left).score>>,
               <<"rightScore", find_score_from_image(image.right).score>>}

\* C4 happens: the detector gave the corners from another corner than the top
\* left on, the two scoreboards show different counts, and get_score returned
C4_Witness ==
    /\ pc = "done"
    /\ result.returned
    /\ image.table[1] # corners[1]
    /\ find_score_from_image(image.left).score = 3
    /\ find_score_from_image(image.right).score = 7
    /\ result.value = {<<"leftScore", 7>>, <<"rightScore", 7>>}

====
